---- MODULE Spec2Model ----
(***************************************************************************)
(* Model of the fragment (pixel) program of internal/graphicsdriver/opengl *)
(* shader.go and of the Monochrome example's update goroutine.             *)
(*                                                                         *)
(* Coordinates are exact: one texel is TexelUnits units, so texel_size/2   *)
(* and texel_size/512 are whole numbers of units and every comparison of   *)
(* the program is made on exact values (floating-point rounding is not     *)
(* modelled).  Colors are 4-tuples <<r, g, b, a>>.                         *)
(***************************************************************************)
EXTENDS Integers, Sequences, FiniteSets, TLC

VARIABLES
    \* ---- fragment program, filter stage (shader.go 180-245)
    pc,            \* "start" | "filtered"
    filter_type,   \* uniform int filter_type
    address,       \* uniform int address
    scale,         \* uniform highp float scale
    pos,           \* varying_tex, <<x, y>> in units
    tex_region,    \* varying_tex_region, <<x0, y0, x1, y1>> in units
    texture,       \* which texture is bound to the sampler
    color,         \* the color at line 245, numerators over ColorDen
    discarded,     \* TRUE once the program has executed discard
    samples,       \* the coordinates handed to texture2D, in order
    zeroed,        \* indexes of the samples replaced by vec4(0, 0, 0, 0)
    \* ---- fragment program, color transform (shader.go 246-257)
    cpc,           \* "start" | "done"
    in_color,      \* the color at line 245, numerators over ColorMax
    color_matrix_body,
    color_matrix_translation,
    color_scale,
    gl_FragColor,  \* the output, a 4-tuple of rationals <<num, den>>
    divided,       \* TRUE iff line 248 (color.rgb /= color.a) was executed
    \* ---- Monochrome example (part_000)
    callerPc,      \* the caller goroutine's position
    updatePc,      \* the update goroutine's position
    loopNo,        \* which of the four for-loops of update() is running
    i,             \* its loop counter
    colorMatrix,   \* game.colorMatrix
    writes,        \* assignments to game.colorMatrix since Update was entered
    drawn          \* the colorMatrix value Draw last read

filterVars == <<pc, filter_type, address, scale, pos, tex_region, texture,
                color, discarded, samples, zeroed>>
colorVars  == <<cpc, in_color, color_matrix_body, color_matrix_translation,
                color_scale, gl_FragColor, divided>>
monoVars   == <<callerPc, updatePc, loopNo, i, colorMatrix, writes, drawn>>
vars       == <<filterVars, colorVars, monoVars>>

----------------------------------------------------------------------------
(* Units and enum values                                                   *)

\* texel_size / 512.0 (lines 152, 155, 191, 192, 215, 219)
EpsDiv == 512
\* units per texel; texel_size / 512 is then 2 units
TexelUnits == 2 * EpsDiv
Eps == TexelUnits \div EpsDiv
HalfTexel == TexelUnits \div 2

\* #define FILTER_... / ADDRESS_... (lines 124-128); the numbers are substituted
\* from package graphics, only their being distinct matters here.
FILTER_NEAREST == 1
FILTER_LINEAR == 2
FILTER_SCREEN == 3
ADDRESS_CLAMP_TO_ZERO == 0
ADDRESS_REPEAT == 1

\* channel values are k / ColorMax, k \in 0..ColorMax
ColorMax == 4
\* blended colors are numerators over ColorMax * TexelUnits^2
ColorDen == ColorMax * TexelUnits * TexelUnits
\* how many region sizes outside the region a coordinate may lie
MaxWraps == 1

ZeroColor == <<0, 0, 0, 0>>

----------------------------------------------------------------------------
(* Texel addressing                                                        *)

\* GLSL floor(a/b) for a >= 0, b > 0
floorDiv(a, b) == a \div b

floorMod(x, y) ==
    IF x < 0
      THEN y - (-x - y * floorDiv(-x, y))
      ELSE x - y * floorDiv(x, y)

adjustTexelByAddress(p, region, addr) ==
    IF addr = ADDRESS_CLAMP_TO_ZERO THEN p
    ELSE IF addr = ADDRESS_REPEAT THEN
        LET o == <<region[1], region[2]>>
            size == <<region[3] - region[1], region[4] - region[2]>>
        IN  <<floorMod(p[1] - o[1], size[1]) + o[1],
              floorMod(p[2] - o[2], size[2]) + o[2]>>
    ELSE <<0, 0>>

\* fract(v * source_size) = 0 for a difference v in units
fractIsZero(v) == (v % TexelUnits) = 0

adjustTexel(p0, p1) ==
    <<IF fractIsZero(p1[1] - p0[1]) THEN p1[1] - Eps ELSE p1[1],
      IF fractIsZero(p1[2] - p0[2]) THEN p1[2] - Eps ELSE p1[2]>>

----------------------------------------------------------------------------
(* The sampler                                                             *)

\* uniform highp vec2 source_size, in texels
source_size == <<8, 8>>

Textures == {"opaque", "translucent"}

\* the texel at column ix, row iy; no texel is transparent black, so a
\* transparent black sample is one the program substituted
Texel(tex, ix, iy) ==
    IF tex = "opaque"
      THEN <<1 + (ix % ColorMax), 1 + (iy % ColorMax), (ix + iy) % (ColorMax + 1), ColorMax>>
      ELSE LET a == 1 + ((ix + 2 * iy) % ColorMax)
           IN  <<a, ix % (a + 1), 0, a>>

\* texture2D(texture, p): the texel that holds p (nearest lookup)
texture2D(tex, p) == Texel(tex, p[1] \div TexelUnits, p[2] \div TexelUnits)

\* a texel color as numerators over ColorDen
Widen(c) == [k \in 1..4 |-> c[k] * TexelUnits * TexelUnits]

----------------------------------------------------------------------------
(* Filters                                                                 *)

\* fract(p * source_size), as a numerator over TexelUnits
fract(v) == v % TexelUnits

clamp(v, lo, hi) == IF v < lo THEN lo ELSE IF v > hi THEN hi ELSE v

\* mix(mix(c0, c1, rate.x), mix(c2, c3, rate.x), rate.y), numerators over ColorDen
mix(a, b, t) == a * (TexelUnits - t) + b * t

bilinear(c, rate) ==
    [k \in 1..4 |->
        (mix(c[1][k], c[2][k], rate[1]) * (TexelUnits - rate[2]))
      + (mix(c[3][k], c[4][k], rate[1]) * rate[2])]

\* the region test with the left edge excluded
outOfRegion_LeftEdgeExcluded(p, region) ==
    \/ p[1] <= region[1]
    \/ p[2] < region[2]
    \/ (region[3] - Eps) <= p[1]
    \/ (region[4] - Eps) <= p[2]

\* lines 189-192: the region test of the nearest filter
outOfRegion(p, region) ==
    \/ p[1] < region[1]
    \/ p[2] < region[2]
    \/ (region[3] - Eps) <= p[1]
    \/ (region[4] - Eps) <= p[2]

\* lines 186-194
NearestFilter(p, region, addr, tex) ==
    LET q == adjustTexelByAddress(p, region, addr)
        out == outOfRegion(q, region)
    IN  [color     |-> IF out THEN ZeroColor ELSE Widen(texture2D(tex, q)),
         discarded |-> FALSE,
         samples   |-> <<q>>,
         zeroed    |-> IF out THEN {1} ELSE {}]

\* lines 207-222: the corners c0..c3 (1..4) the edge tests replace by zero
edgeZeroed(p0, p1, region) ==
    (IF p0[1] < region[1] THEN {1, 3} ELSE {})
    \cup (IF p0[2] < region[2] THEN {1, 2} ELSE {})
    \cup (IF (region[3] - Eps) <= p1[1] THEN {2, 4} ELSE {})
    \cup (IF (region[4] - Eps) <= p1[2] THEN {3, 4} ELSE {})

corners(p0, p1) == << p0, <<p1[1], p0[2]>>, <<p0[1], p1[2]>>, p1 >>

\* lines 195-225
LinearFilter(p, region, addr, tex) ==
    LET a0 == <<p[1] - HalfTexel, p[2] - HalfTexel>>
        a1 == adjustTexel(a0, <<p[1] + HalfTexel, p[2] + HalfTexel>>)
        p0 == adjustTexelByAddress(a0, region, addr)
        p1 == adjustTexelByAddress(a1, region, addr)
        at == corners(p0, p1)
        z  == edgeZeroed(p0, p1, region)
        c  == [k \in 1..4 |-> IF k \in z THEN ZeroColor ELSE texture2D(tex, at[k])]
        rate == <<fract(p0[1]), fract(p0[2])>>
    IN  [color     |-> bilinear(c, rate),
         discarded |-> FALSE,
         samples   |-> at,
         zeroed    |-> z]

\* texel_size / 2.0 / scale as a pure number (line 238), numerator over TexelUnits
halfTexelSize(axis, sc) == TexelUnits \div (2 * source_size[axis] * sc)

\* the reshaped rate without the final "+ rateCenter"
screenRate_NotRecentred(f, axis, sc) ==
    LET rateCenter == TexelUnits - halfTexelSize(axis, sc)
    IN  clamp((f - rateCenter) * sc, 0, TexelUnits)

\* line 239
screenRate(f, axis, sc) ==
    LET rateCenter == TexelUnits - halfTexelSize(axis, sc)
    IN  clamp(((f - rateCenter) * sc) + rateCenter, 0, TexelUnits)

\* lines 226-240
ScreenFilter(p, region, addr, tex, sc) ==
    LET p0 == <<p[1] - (HalfTexel \div sc), p[2] - (HalfTexel \div sc)>>
        p1 == adjustTexel(p0, <<p[1] + (HalfTexel \div sc), p[2] + (HalfTexel \div sc)>>)
        at == corners(p0, p1)
        c  == [k \in 1..4 |-> texture2D(tex, at[k])]
        rate == <<screenRate(fract(p0[1]), 1, sc), screenRate(fract(p0[2]), 2, sc)>>
    IN  [color     |-> bilinear(c, rate),
         discarded |-> FALSE,
         samples   |-> at,
         zeroed    |-> {}]

\* lines 241-244
Discard ==
    [color |-> ZeroColor, discarded |-> TRUE, samples |-> <<>>, zeroed |-> {}]

\* lines 186-244: the dispatch on filter_type
Filter(ft, p, region, addr, tex, sc) ==
    IF ft = FILTER_NEAREST THEN NearestFilter(p, region, addr, tex)
    ELSE IF ft = FILTER_LINEAR THEN LinearFilter(p, region, addr, tex)
    ELSE IF ft = FILTER_SCREEN THEN ScreenFilter(p, region, addr, tex, sc)
    ELSE Discard

----------------------------------------------------------------------------
(* Inputs of the filter stage                                              *)

FilterValues == {0, FILTER_NEAREST, FILTER_LINEAR, FILTER_SCREEN}
AddressValues == {ADDRESS_CLAMP_TO_ZERO, ADDRESS_REPEAT, 2}
Scales == {1, 2}

\* texel-aligned sprite regions of the atlas, xMin < xMax and yMin < yMax
Regions ==
    { <<3 * TexelUnits, 3 * TexelUnits, 5 * TexelUnits, 5 * TexelUnits>>,
      <<3 * TexelUnits, 4 * TexelUnits, 6 * TexelUnits, 5 * TexelUnits>> }

\* offsets from a region edge at which the program's comparisons change
Offsets ==
    { -TexelUnits, -HalfTexel - Eps, -HalfTexel, -Eps, -1, 0, 1, 300,
      HalfTexel, HalfTexel + 1, HalfTexel + 300, TexelUnits }

AxisCoords(lo, hi) ==
    {lo + d : d \in Offsets} \cup {hi + d : d \in Offsets}
    \cup {lo - k * (hi - lo) : k \in 1..MaxWraps}
    \cup {hi + k * (hi - lo) : k \in 1..MaxWraps}

Positions(region) ==
    AxisCoords(region[1], region[3]) \X AxisCoords(region[2], region[4])

----------------------------------------------------------------------------
(* Exact arithmetic of the color transform: a value is <<num, den>>,       *)
(* den > 0, in lowest terms                                                *)

RECURSIVE GCD(_, _)
GCD(a, b) == IF b = 0 THEN a ELSE GCD(b, a % b)

Abs(n) == IF n < 0 THEN -n ELSE n

R(n, d) == LET g == GCD(Abs(n), d) IN <<n \div g, d \div g>>

RAdd(x, y) == R(x[1] * y[2] + y[1] * x[2], x[2] * y[2])
RMul(x, y) == R(x[1] * y[1], x[2] * y[2])
RLess(x, y) == x[1] * y[2] < y[1] * x[2]

RZero == <<0, 1>>
ROne == <<1, 1>>

\* what a division by zero may leave in a channel
Undefined == {RZero, ROne}

\* x / y; a division by zero yields the value undef
RDiv(x, y, undef) == IF y[1] = 0 THEN undef ELSE R(x[1] * y[2], x[2] * y[1])

\* clamp(v, 0.0, 1.0), line 253
clamp01(x) == IF RLess(x, RZero) THEN RZero ELSE IF RLess(ROne, x) THEN ROne ELSE x

\* the guard with <= in place of <
ShouldUnpremultiply_ZeroIncluded(a) == ~RLess(a, RZero)

\* line 247: 0.0 < color.a
ShouldUnpremultiply(a) == RLess(RZero, a)

\* lines 247-249
Unpremultiply(c, undef) ==
    IF ShouldUnpremultiply(c[4])
      THEN <<RDiv(c[1], c[4], undef), RDiv(c[2], c[4], undef), RDiv(c[3], c[4], undef), c[4]>>
      ELSE c

\* line 251: (color_matrix_body * color) + color_matrix_translation
ApplyMatrix(body, tr, c) ==
    [k \in 1..4 |->
        RAdd(RAdd(RAdd(RMul(body[k][1], c[1]), RMul(body[k][2], c[2])),
                  RAdd(RMul(body[k][3], c[3]), RMul(body[k][4], c[4]))),
             tr[k])]

\* line 252: color *= varying_color_scale
ApplyScale(c, cs) == [k \in 1..4 |-> RMul(c[k], cs[k])]

\* line 253
ClampColor(c) == [k \in 1..4 |-> clamp01(c[k])]

\* the output left un-premultiplied
Premultiply_Skipped(c) == c

\* line 255: color.rgb *= color.a
Premultiply(c) == <<RMul(c[1], c[4]), RMul(c[2], c[4]), RMul(c[3], c[4]), c[4]>>

\* lines 246-257
ColorTransform(c, body, tr, cs, undef) ==
    Premultiply(ClampColor(ApplyScale(ApplyMatrix(body, tr, Unpremultiply(c, undef)), cs)))

\* the color at line 245 as rationals
AsRational(c) == [k \in 1..4 |-> R(c[k], ColorMax)]

----------------------------------------------------------------------------
(* Inputs of the color transform                                           *)

Half == <<1, 2>>
Quarter == <<1, 4>>
MinusOne == <<-1, 1>>

IdentityBody ==
    << <<ROne, RZero, RZero, RZero>>,
       <<RZero, ROne, RZero, RZero>>,
       <<RZero, RZero, ROne, RZero>>,
       <<RZero, RZero, RZero, ROne>> >>

\* every color row takes the same weighted sum of r, g, b
MonochromeBody ==
    << <<Quarter, Half, Quarter, RZero>>,
       <<Quarter, Half, Quarter, RZero>>,
       <<Quarter, Half, Quarter, RZero>>,
       <<RZero, RZero, RZero, ROne>> >>

\* negates the color channels, halves alpha
NegativeBody ==
    << <<MinusOne, RZero, RZero, RZero>>,
       <<RZero, MinusOne, RZero, RZero>>,
       <<RZero, RZero, MinusOne, RZero>>,
       <<RZero, RZero, RZero, Half>> >>

\* alpha is taken from the red channel
AlphaFromRedBody ==
    << <<ROne, RZero, RZero, RZero>>,
       <<RZero, ROne, RZero, RZero>>,
       <<RZero, RZero, ROne, RZero>>,
       <<ROne, RZero, RZero, RZero>> >>

Bodies == {IdentityBody, MonochromeBody, NegativeBody, AlphaFromRedBody}

ZeroTranslation == <<RZero, RZero, RZero, RZero>>
Translations ==
    { ZeroTranslation,
      <<ROne, ROne, ROne, RZero>>,
      <<RZero, RZero, RZero, ROne>>,
      <<Half, RZero, RZero, MinusOne>> }

UnitScale == <<ROne, ROne, ROne, ROne>>
ColorScales == { UnitScale, <<ROne, Half, ROne, Half>>, <<ROne, ROne, ROne, RZero>> }

\* the colors the filter stage may hand over, premultiplied or not
InColors == (0..ColorMax) \X (0..ColorMax) \X {0, ColorMax} \X (0..ColorMax)

----------------------------------------------------------------------------
(* Monochrome example: the caller goroutine and the update goroutine talk  *)
(* over the unbuffered channel game.ch, so a send and the matching receive *)
(* are one step                                                            *)

fps == 60

\* a color matrix is named by how update() built it
matrixValue(kind, from, to, k) == [kind |-> kind, from |-> from, to |-> to, k |-> k]

\* matrix.IdentityColor() and matrix.Monochrome()
colorI == matrixValue("IdentityColor", "", "", 0)
colorMonochrome == matrixValue("Monochrome", "", "", 0)

\* mean(a, b, float64(k) / float64(fps))
mean(a, b, k) == matrixValue("mean", a.kind, b.kind, k)

\* the value update() assigns in loop number n at counter k
Assigned(n, k) ==
    CASE n = 1 -> mean(colorI, colorMonochrome, k)
      [] n = 2 -> colorMonochrome
      [] n = 3 -> mean(colorMonochrome, colorI, k)
      [] n = 4 -> colorI

\* a loop body that answers the caller before it assigns
updateNext_SendFirst(at) ==
    CASE at = "recv" -> "send"
      [] at = "send" -> "assign"
      [] at = "assign" -> "recv"

\* the order of the statements of a loop body of update()
updateNext(at) ==
    CASE at = "recv" -> "assign"
      [] at = "assign" -> "send"
      [] at = "send" -> "recv"

\* i++ and the step to the next for-loop, taken when a loop body ends
EndOfBody(at) == updateNext(at) = "recv"
NextI(at) == IF ~EndOfBody(at) THEN i ELSE IF i + 1 < fps THEN i + 1 ELSE 0
NextLoop(at) ==
    IF EndOfBody(at) /\ ~(i + 1 < fps) THEN (loopNo % 4) + 1 ELSE loopNo

----------------------------------------------------------------------------
(* States the parts rest in while another part runs                        *)

FilterIdle ==
    /\ pc = "idle" /\ filter_type = 0 /\ address = 0 /\ scale = 1
    /\ pos = <<0, 0>> /\ tex_region = <<0, 0, 0, 0>> /\ texture = "none"
    /\ color = ZeroColor /\ discarded = FALSE /\ samples = <<>> /\ zeroed = {}

ColorIdle ==
    /\ cpc = "idle" /\ in_color = ZeroColor
    /\ color_matrix_body = IdentityBody
    /\ color_matrix_translation = ZeroTranslation
    /\ color_scale = UnitScale
    /\ gl_FragColor = ZeroTranslation /\ divided = FALSE

MonoIdle ==
    /\ callerPc = "idle" /\ updatePc = "none" /\ loopNo = 1 /\ i = 0
    /\ colorMatrix = colorI /\ writes = 0 /\ drawn = colorI

----------------------------------------------------------------------------
(* Filter stage of main(), lines 180-245                                   *)

FilterInit ==
    /\ pc = "start"
    /\ filter_type \in FilterValues
    /\ address \in AddressValues
    /\ scale \in Scales
    /\ tex_region \in Regions
    /\ pos \in Positions(tex_region)
    /\ texture \in Textures
    /\ color = ZeroColor /\ discarded = FALSE /\ samples = <<>> /\ zeroed = {}

main ==
    /\ pc = "start"
    /\ LET f == Filter(filter_type, pos, tex_region, address, texture, scale)
       IN  /\ color' = f.color
           /\ discarded' = f.discarded
           /\ samples' = f.samples
           /\ zeroed' = f.zeroed
    /\ pc' = "filtered"
    /\ UNCHANGED <<filter_type, address, scale, pos, tex_region, texture>>
    /\ UNCHANGED <<colorVars, monoVars>>

InitFilter == FilterInit /\ ColorIdle /\ MonoIdle
NextFilter == main
SpecFilter == InitFilter /\ [][NextFilter]_vars

----------------------------------------------------------------------------
(* Color transform of main(), lines 246-257                                *)

ColorInit ==
    /\ cpc = "start"
    /\ in_color \in InColors
    /\ color_matrix_body \in Bodies
    /\ color_matrix_translation \in Translations
    /\ color_scale \in ColorScales
    /\ gl_FragColor = ZeroTranslation /\ divided = FALSE

transform ==
    /\ cpc = "start"
    /\ \E undef \in Undefined :
         gl_FragColor' = ColorTransform(AsRational(in_color), color_matrix_body,
                                        color_matrix_translation, color_scale, undef)
    /\ divided' = ShouldUnpremultiply(AsRational(in_color)[4])
    /\ cpc' = "done"
    /\ UNCHANGED <<in_color, color_matrix_body, color_matrix_translation, color_scale>>
    /\ UNCHANGED <<filterVars, monoVars>>

InitColor == ColorInit /\ FilterIdle /\ MonoIdle
NextColor == transform
SpecColor == InitColor /\ [][NextColor]_vars

----------------------------------------------------------------------------
(* Monochrome: InitTextures, Update, Draw and update()                     *)

MonoInit ==
    /\ callerPc = "init" /\ updatePc = "none" /\ loopNo = 1 /\ i = 0
    /\ colorMatrix = colorI /\ writes = 0 /\ drawn = colorI

\* line 47: go game.update()
InitTextures ==
    /\ callerPc = "init"
    /\ callerPc' = "idle"
    /\ updatePc' = "recv"
    /\ UNCHANGED <<loopNo, i, colorMatrix, writes, drawn>>
    /\ UNCHANGED <<filterVars, colorVars>>

\* the caller enters Update and reaches line 94
CallUpdate ==
    /\ callerPc = "idle"
    /\ callerPc' = "send"
    /\ writes' = 0
    /\ UNCHANGED <<updatePc, loopNo, i, colorMatrix, drawn>>
    /\ UNCHANGED <<filterVars, colorVars>>

\* line 94 meets line 69, 75, 81 or 86
SendToUpdate ==
    /\ callerPc = "send" /\ updatePc = "recv"
    /\ callerPc' = "recv"
    /\ updatePc' = updateNext("recv")
    /\ i' = NextI("recv") /\ loopNo' = NextLoop("recv")
    /\ UNCHANGED <<colorMatrix, writes, drawn>>
    /\ UNCHANGED <<filterVars, colorVars>>

\* lines 71, 76, 82, 87
Assign ==
    /\ updatePc = "assign"
    /\ colorMatrix' = Assigned(loopNo, i)
    /\ writes' = writes + 1
    /\ updatePc' = updateNext("assign")
    /\ i' = NextI("assign") /\ loopNo' = NextLoop("assign")
    /\ UNCHANGED <<callerPc, drawn>>
    /\ UNCHANGED <<filterVars, colorVars>>

\* line 72, 77, 83 or 88 meets line 95
SendToCaller ==
    /\ updatePc = "send" /\ callerPc = "recv"
    /\ callerPc' = "geom"
    /\ updatePc' = updateNext("send")
    /\ i' = NextI("send") /\ loopNo' = NextLoop("send")
    /\ UNCHANGED <<colorMatrix, writes, drawn>>
    /\ UNCHANGED <<filterVars, colorVars>>

\* lines 97-100 write game.geometryMatrix only; Update returns
UpdateReturn ==
    /\ callerPc = "geom"
    /\ callerPc' = "idle"
    /\ UNCHANGED <<updatePc, loopNo, i, colorMatrix, writes, drawn>>
    /\ UNCHANGED <<filterVars, colorVars>>

\* the caller enters Draw, line 104
CallDraw ==
    /\ callerPc = "idle"
    /\ callerPc' = "draw"
    /\ UNCHANGED <<updatePc, loopNo, i, colorMatrix, writes, drawn>>
    /\ UNCHANGED <<filterVars, colorVars>>

\* lines 106-107 read game.colorMatrix; Draw returns
DrawTexture ==
    /\ callerPc = "draw"
    /\ drawn' = colorMatrix
    /\ callerPc' = "idle"
    /\ UNCHANGED <<updatePc, loopNo, i, colorMatrix, writes>>
    /\ UNCHANGED <<filterVars, colorVars>>

InitMono == MonoInit /\ FilterIdle /\ ColorIdle
NextMono ==
    \/ InitTextures
    \/ CallUpdate
    \/ SendToUpdate
    \/ Assign
    \/ SendToCaller
    \/ UpdateReturn
    \/ CallDraw
    \/ DrawTexture
SpecMono == InitMono /\ [][NextMono]_vars

----------------------------------------------------------------------------
(* Properties                                                              *)

Filtered(ft, addr) == pc = "filtered" /\ filter_type = ft /\ address = addr

\* p lies in [regionMin, regionMax) on both axes
InRegion(p) ==
    /\ tex_region[1] <= p[1] /\ p[1] < tex_region[3]
    /\ tex_region[2] <= p[2] /\ p[2] < tex_region[4]

\* p lies in [regionMin, regionMax - texel_size/512) on both axes
InShrunkRegion(p) ==
    /\ tex_region[1] <= p[1] /\ p[1] < tex_region[3] - Eps
    /\ tex_region[2] <= p[2] /\ p[2] < tex_region[4] - Eps

regionSize == <<tex_region[3] - tex_region[1], tex_region[4] - tex_region[2]>>

\* C1: under Repeat the coordinate adjustTexelByAddress returns (the one the
\* nearest filter samples) lies in [regionMin, regionMax) on each axis.
C1_RepeatStaysInRegion ==
    Filtered(FILTER_NEAREST, ADDRESS_REPEAT) => InRegion(samples[1])

\* C2: under Repeat adjustTexelByAddress is periodic in the region size:
\* shifting pos by k region sizes, k of either sign, gives the same coordinate.
C2_RepeatPeriodic ==
    Filtered(FILTER_NEAREST, ADDRESS_REPEAT) =>
        \A kx, ky \in (-MaxWraps)..MaxWraps :
            adjustTexelByAddress(<<pos[1] + kx * regionSize[1], pos[2] + ky * regionSize[2]>>,
                                 tex_region, address) = samples[1]

\* pos lies a whole texel or more outside the region on some side
TexelOutside ==
    \/ pos[1] <= tex_region[1] - TexelUnits
    \/ pos[2] <= tex_region[2] - TexelUnits
    \/ pos[1] >= tex_region[3] + TexelUnits
    \/ pos[2] >= tex_region[4] + TexelUnits

\* C3: under ClampToZero with the linear filter every corner sampled outside
\* the (epsilon-shrunk) region is replaced by transparent black, and a pos a
\* whole texel or more outside the region blends to (0, 0, 0, 0).
C3_LinearNeverLeaks ==
    Filtered(FILTER_LINEAR, ADDRESS_CLAMP_TO_ZERO) =>
        /\ \A k \in 1..4 : ~InShrunkRegion(samples[k]) => k \in zeroed
        /\ TexelOutside => color = ZeroColor

\* C6: an unrecognized filter or address value makes the program discard.
C6_UnknownEnumDiscards ==
    (/\ pc = "filtered"
     /\ \/ filter_type \notin {FILTER_NEAREST, FILTER_LINEAR, FILTER_SCREEN}
        \/ address \notin {ADDRESS_CLAMP_TO_ZERO, ADDRESS_REPEAT})
    => discarded

\* C7: under ClampToZero the nearest filter yields the raw texel at pos when
\* regionMin <= pos < regionMax - texel_size/512 on both axes, and
\* transparent black otherwise.
C7_NearestClampToZero ==
    Filtered(FILTER_NEAREST, ADDRESS_CLAMP_TO_ZERO) =>
        IF InShrunkRegion(pos)
          THEN color = Widen(Texel(texture, pos[1] \div TexelUnits, pos[2] \div TexelUnits))
          ELSE color = ZeroColor

C7_Witness ==
    /\ Filtered(FILTER_NEAREST, ADDRESS_CLAMP_TO_ZERO)
    /\ pos = <<tex_region[1], tex_region[2]>>
    /\ color # ZeroColor
    /\ zeroed = {}

\* C9: under Repeat neither the nearest nor the linear filter replaces a
\* sample by transparent black.
C9_RepeatNeverZeroes ==
    (/\ pc = "filtered"
     /\ address = ADDRESS_REPEAT
     /\ filter_type \in {FILTER_NEAREST, FILTER_LINEAR})
    => zeroed = {}

\* C5 as claimed: with scale = 1 the screen filter blends to the color the
\* linear filter blends to, at every pos and under both address modes.
C5_ScreenEqualsLinear ==
    (/\ pc = "filtered" /\ filter_type = FILTER_SCREEN /\ scale = 1
     /\ address \in {ADDRESS_CLAMP_TO_ZERO, ADDRESS_REPEAT})
    => color = LinearFilter(pos, tex_region, address, texture).color

\* both sample points of the linear filter, pos - texel_size/2 and
\* pos + texel_size/2 - texel_size/512, lie in the epsilon-shrunk region
CornersInRegion ==
    /\ InShrunkRegion(<<pos[1] - HalfTexel, pos[2] - HalfTexel>>)
    /\ InShrunkRegion(<<pos[1] + HalfTexel - Eps, pos[2] + HalfTexel - Eps>>)

\* C5 amended: with scale = 1 the screen filter blends to the color of the
\* linear filter whenever both sample points lie in the epsilon-shrunk region.
C5_ScreenEqualsLinearInside ==
    (/\ pc = "filtered" /\ filter_type = FILTER_SCREEN /\ scale = 1
     /\ address \in {ADDRESS_CLAMP_TO_ZERO, ADDRESS_REPEAT}
     /\ CornersInRegion)
    => color = LinearFilter(pos, tex_region, address, texture).color

C5_Witness ==
    /\ Filtered(FILTER_SCREEN, ADDRESS_REPEAT) /\ scale = 1
    /\ CornersInRegion
    /\ pos[1] = tex_region[1] + HalfTexel + 300
    /\ pos[2] = tex_region[2] + HalfTexel + 1
    /\ color # Widen(texture2D(texture, pos))

Transformed == cpc = "done"

\* the alpha the matrix, translation and color scale give the untouched color
TransformedAlpha ==
    ApplyScale(ApplyMatrix(color_matrix_body, color_matrix_translation,
                           AsRational(in_color)), color_scale)[4]

\* C4 as claimed: a color with alpha 0 is never divided by alpha and comes
\* out as (0, 0, 0, 0) whatever the matrix, translation and color scale.
C4_ZeroAlphaGivesZero ==
    (Transformed /\ in_color[4] = 0) =>
        ~divided /\ gl_FragColor = ZeroTranslation

\* C4 amended: a color with alpha 0 is never divided by alpha, and comes out
\* as (0, 0, 0, 0) exactly when the transformed alpha is not positive.
C4_ZeroAlphaNoDivision ==
    (Transformed /\ in_color[4] = 0) =>
        /\ ~divided
        /\ (gl_FragColor = ZeroTranslation) <=> ~RLess(RZero, TransformedAlpha)

C4_Witness ==
    /\ Transformed /\ in_color[4] = 0 /\ in_color[1] > 0
    /\ color_matrix_body = MonochromeBody
    /\ color_matrix_translation = <<ROne, ROne, ROne, RZero>>
    /\ gl_FragColor = ZeroTranslation

IdentityTransform ==
    /\ color_matrix_body = IdentityBody
    /\ color_matrix_translation = ZeroTranslation
    /\ color_scale = UnitScale

\* C8 as claimed: the identity transform returns every color with alpha in
\* (0, 1] and color channels in [0, 1] unchanged.
C8_IdentityRoundTrip ==
    (Transformed /\ IdentityTransform /\ in_color[4] > 0) =>
        gl_FragColor = AsRational(in_color)

\* C8 amended: the identity transform returns every color with alpha in
\* (0, 1] and color channels in [0, alpha] unchanged.
C8_IdentityRoundTripPremultiplied ==
    (/\ Transformed /\ IdentityTransform /\ in_color[4] > 0
     /\ \A k \in 1..3 : in_color[k] <= in_color[4])
    => gl_FragColor = AsRational(in_color)

C8_Witness ==
    /\ Transformed /\ IdentityTransform /\ divided
    /\ in_color = <<1, 2, 0, 2>>
    /\ gl_FragColor = AsRational(in_color)

\* C10: update() assigns colorMatrix exactly once per Update call, and only
\* while the caller is blocked in Update between its send and its receive
\* (so never while Draw reads it or the caller runs other code).
C10_AssignOnlyInsideUpdate ==
    /\ [](/\ callerPc = "geom" => writes = 1
          /\ updatePc = "assign" => callerPc = "recv"
          /\ callerPc \in {"idle", "draw"} => writes <= 1)
    /\ [][writes' = writes + 1 => (callerPc = "recv" /\ callerPc' = "recv")]_vars

C10_Witness ==
    /\ callerPc = "draw" /\ writes = 1
    /\ colorMatrix = mean(colorMonochrome, colorI, 5)
    /\ updatePc = "recv"

====
